---- MODULE Spec2Model ----
(***************************************************************************)
(* A model of the x86_64 paging core of the SOS kernel:                    *)
(*   src/paging/src/arch/x86_64/mod.rs  (ActivePageTable, ActivePML4,      *)
(*                                       InactivePageTable, kernel_remap)  *)
(*   src/src/memory/mod.rs              (VAddr index extraction, ranges)   *)
(*   src/src/arch/x86_64/memory/mod.rs  (Frame, PAGE_SIZE, older mapper)   *)
(*                                                                         *)
(* Physical memory is a map from frame numbers to page tables.  The code   *)
(* never holds a table by its frame: it holds a virtual address inside the *)
(* recursive region and the processor resolves it through the table in the *)
(* base register (cr3).  A table handle is therefore the sequence of four  *)
(* indices of the page that holds the table, and every read and write of   *)
(* an entry goes through HW, the processor's walk from cr3.                *)
(*                                                                         *)
(* A table has 512 entries; the model stores the entries at Slots, the     *)
(* indices the modelled pages route through.  No operation on the modelled *)
(* pages reads or writes any other slot (zero() clears them, and they      *)
(* start cleared).                                                         *)
(*                                                                         *)
(* table.rs, temp.rs, cr3.rs and tlb.rs are not among the source files;    *)
(* Entry, Table, TempPage and the base-register access are modelled from   *)
(* the specification (sections 3, 4.2, 4.4 and 6) and from their callers.  *)
(***************************************************************************)
EXTENDS Integers, Sequences, FiniteSets, TLC

VARIABLES
    mem,        \* physical memory: frame -> slot -> entry
    cr3,        \* the frame in the base-table register
    free,       \* frames the frame allocator can hand out
    tempFrames, \* frames held by the temporary page's own allocator
    caller,     \* frames the kernel code calling the mapper owns
    inactive,   \* frames wrapped by a live InactivePageTable
    upc,        \* position inside ActivePageTable::using
    last,       \* the last mapper call: arguments, result, allocator calls
    rpc,        \* position inside the procedure being run (kernel_remap, ..)
    rin,        \* the procedure's inputs (kernel_remap: sections, multiboot range)
    rst         \* the procedure's locals

vars == <<mem, cr3, free, tempFrames, caller, inactive, upc, last, rpc, rin, rst>>

-----------------------------------------------------------------------------
(* Program constants *)

PAGE_SHIFT == 12
PAGE_SIZE == 4096
N_ENTRIES == 512
RECURSIVE_SLOT == 511
TEMP_PAGE_NUMBER == 16435934
VGA_BUFFER == 753664

PRESENT == "PRESENT"
WRITABLE == "WRITABLE"
HUGE_PAGE == "HUGE_PAGE"
NO_EXECUTE == "NO_EXECUTE"

NoFrame == -1

-----------------------------------------------------------------------------
(* Bounds of the model *)

\* frames the allocator starts with
NumFree == 3
\* frames the temporary page's allocator starts with
NumTemp == 3

\* the frames the calling code owns at the start
CallerFrames == {0, 1}
FirstFree == Cardinality(CallerFrames)
FreeFrames == FirstFree .. (FirstFree + NumFree - 1)
TempFrames == (FirstFree + NumFree) .. (FirstFree + NumFree + NumTemp - 1)
\* the bootloader's tables: the top-level table and the directories and leaf
\* table of the first two megabytes
BootPML4 == FirstFree + NumFree + NumTemp
BootPDPT == BootPML4 + 1
BootPD == BootPML4 + 2
BootPT == BootPML4 + 3
Frames == 0 .. BootPT
\* frames of kernel image and boot information after the boot PML4's frame
KernelSpan == 4

\* the pages callers map and unmap, besides the identity pages of the low
\* frames in the first leaf table: one in the next leaf table, and
\* test_paging's page under the 42nd PDPT entry
UserPages == {N_ENTRIES, 42 * N_ENTRIES * N_ENTRIES}

\* the first page behind the 300th PD entry, which the bootloader maps with a
\* huge page (test_paging, line 341)
HugeRegion == 300 * N_ENTRIES

\* pages that are only looked up or unmapped: one inside the bootloader's
\* huge page, one behind the second PML4 entry, which is unused
ProbePages == {HugeRegion + 1, N_ENTRIES * N_ENTRIES * N_ENTRIES}

-----------------------------------------------------------------------------
(* Address and index arithmetic *)

Pow2(n) == 2 ^ n

\* pd_index without the mask
pd_index_unmasked(page) == page \div (2 ^ (21 - PAGE_SHIFT))

\* VAddr::pml4_index .. pt_index, on the page number (address >> PAGE_SHIFT)
\* (address >> 39, 30, 21, 12) & 0b111111111
pml4_index(page) == (page \div Pow2(39 - PAGE_SHIFT)) % N_ENTRIES
pdpt_index(page) == (page \div Pow2(30 - PAGE_SHIFT)) % N_ENTRIES
pd_index(page) == (page \div Pow2(21 - PAGE_SHIFT)) % N_ENTRIES
pt_index(page) == (page \div Pow2(12 - PAGE_SHIFT)) % N_ENTRIES

\* Page::containing
containing(addr) == addr \div PAGE_SIZE
\* Frame::base_addr
base_addr(frame) == frame * Pow2(PAGE_SHIFT)

\* the frames of the kernel image and of the boot information, starting at
\* the frame of the bootloader's top-level table
KernelFrames == BootPML4 .. (BootPML4 + KernelSpan)

ModelledPages ==
    UserPages \cup ProbePages \cup {TEMP_PAGE_NUMBER, containing(VGA_BUFFER)}
        \cup Frames \cup KernelFrames

Slots ==
    {RECURSIVE_SLOT}
        \cup {pml4_index(p) : p \in ModelledPages}
        \cup {pdpt_index(p) : p \in ModelledPages}
        \cup {pd_index(p) : p \in ModelledPages}
        \cup {pt_index(p) : p \in ModelledPages}

-----------------------------------------------------------------------------
(* Entries and tables *)

UnusedEntry == [frame |-> 0, flags |-> {}]
MkEntry(frame, flags) == [frame |-> frame, flags |-> flags]

is_unused(e) == e = UnusedEntry
is_huge(e) == HUGE_PAGE \in e.flags
get_frame(e) == IF PRESENT \in e.flags THEN e.frame ELSE NoFrame
do_huge(e, offset) ==
    IF is_huge(e) /\ get_frame(e) # NoFrame THEN e.frame + offset ELSE NoFrame

ZeroTable == [i \in Slots |-> UnusedEntry]

\* the entry in slot i of the table stored in frame f
Rd(m, f, i) == IF f \in DOMAIN m /\ i \in Slots THEN m[f][i] ELSE UnusedEntry

\* one level of the processor's walk
Step(m, f, i) == IF f = NoFrame THEN NoFrame ELSE get_frame(Rd(m, f, i))

\* the frame the processor reaches for the page with indices va, from root
HW(m, root, va) == Step(m, Step(m, Step(m, Step(m, root, va[1]), va[2]), va[3]), va[4])

\* the fixed recursive address of the active top-level table
PML4_PTR == <<RECURSIVE_SLOT, RECURSIVE_SLOT, RECURSIVE_SLOT, RECURSIVE_SLOT>>
NoTable == <<>>

PageVA(page) == <<pml4_index(page), pdpt_index(page), pd_index(page), pt_index(page)>>

\* entry i of the table at handle h
EntryAt(m, root, h, i) == Rd(m, HW(m, root, h), i)

\* writing entry i of the table at handle h
SetEntry(m, root, h, i, e) ==
    LET f == HW(m, root, h) IN
    IF f \in DOMAIN m /\ i \in Slots THEN [m EXCEPT ![f][i] = e] ELSE m

\* Table::zero through handle h
zero(m, root, h) ==
    LET f == HW(m, root, h) IN
    IF f \in DOMAIN m THEN [m EXCEPT ![f] = ZeroTable] ELSE m

\* Table::next_table: the handle of the sub-table behind a present, non-huge
\* entry, by the recursive address formula (table address << 9 | index << 12)
next_table(m, root, h, i) ==
    IF h = NoTable THEN NoTable
    ELSE LET e == EntryAt(m, root, h, i) IN
         IF PRESENT \in e.flags /\ ~is_huge(e) THEN <<h[2], h[3], h[4], i>> ELSE NoTable

-----------------------------------------------------------------------------
(* The frame allocator (an external collaborator, specification section 6) *)

\* FrameAllocator::allocate on a non-empty free set: the lowest free frame
Allocate(fr) == CHOOSE f \in fr : \A g \in fr : f <= g

-----------------------------------------------------------------------------
(* Mapper for ActivePML4.  Every operation takes the memory m, the frame in *)
(* the base register and the allocator's free set fr, and returns the new  *)
(* memory and free set, the result, and the allocator calls it made.       *)

Ret(m, fr, res, al, de) ==
    [mem |-> m, free |-> fr, res |-> res, allocs |-> al, deallocs |-> de]

Sub(m, fr, res, table, al) ==
    [mem |-> m, free |-> fr, res |-> res, table |-> table, allocs |-> al]

\* Table::create_next on an unused entry, with the frame f the allocator gave:
\* the entry is set to f, present and writable, and the new table is zeroed
create_from(m, root, fr, h, i, f) ==
    Sub(zero(SetEntry(m, root, h, i, MkEntry(f, {PRESENT, WRITABLE})),
             root, <<h[2], h[3], h[4], i>>),
        fr \ {f}, "Ok", <<h[2], h[3], h[4], i>>, <<f>>)

\* Table::create_next (next_table_or_create): the sub-table behind entry i of
\* the table at h, created from a fresh zeroed frame when the entry is unused
create_next(m, root, fr, h, i) ==
    IF next_table(m, root, h, i) # NoTable
    THEN Sub(m, fr, "Ok", next_table(m, root, h, i), <<>>)
    ELSE IF is_huge(EntryAt(m, root, h, i)) THEN Sub(m, fr, "Panic", NoTable, <<>>)
    ELSE IF fr = {} THEN Sub(m, fr, "Alloc", NoTable, <<>>)
    ELSE create_from(m, root, fr, h, i, Allocate(fr))

\* the frame of a leaf entry, NoFrame without a leaf table
leaf_frame(m, root, pt, i) ==
    IF pt = NoTable THEN NoFrame ELSE get_frame(EntryAt(m, root, pt, i))

\* the huge_page closure of translate_page, given the PDPT's handle
huge_page(m, root, pdpt, page) ==
    IF pdpt = NoTable THEN NoFrame
    ELSE IF do_huge(EntryAt(m, root, pdpt, pdpt_index(page)),
                    pd_index(page) + pt_index(page)) # NoFrame
    THEN do_huge(EntryAt(m, root, pdpt, pdpt_index(page)),
                 pd_index(page) + pt_index(page))
    ELSE IF next_table(m, root, pdpt, pdpt_index(page)) = NoTable THEN NoFrame
    ELSE do_huge(EntryAt(m, root, next_table(m, root, pdpt, pdpt_index(page)),
                         pd_index(page)),
                 pt_index(page))

\* the leaf table's handle for page: three next_table steps from the PML4
leaf_table(m, root, page) ==
    next_table(m, root,
        next_table(m, root,
            next_table(m, root, PML4_PTR, pml4_index(page)),
            pdpt_index(page)),
        pd_index(page))

\* ActivePML4::translate_page
translate_page(m, root, page) ==
    IF leaf_frame(m, root, leaf_table(m, root, page), pt_index(page)) # NoFrame
    THEN leaf_frame(m, root, leaf_table(m, root, page), pt_index(page))
    ELSE huge_page(m, root, next_table(m, root, PML4_PTR, pml4_index(page)), page)

\* ActivePML4::translate: the translated frame's number plus the offset in the
\* page, as line 141 computes it
translate(m, root, vaddr) ==
    IF translate_page(m, root, containing(vaddr)) = NoFrame THEN NoFrame
    ELSE translate_page(m, root, containing(vaddr)) + (vaddr % PAGE_SIZE)

\* ActivePML4::is_mapped
is_mapped(m, root, page) == translate_page(m, root, page) # NoFrame

\* map_entry that sets the entry without the PRESENT flag
map_entry_not_present(c, al, root, page, frame, flags) ==
    IF c.res # "Ok" THEN Ret(c.mem, c.free, c.res, al \o c.allocs, <<>>)
    ELSE IF is_unused(EntryAt(c.mem, root, c.table, pt_index(page)))
    THEN Ret(SetEntry(c.mem, root, c.table, pt_index(page), MkEntry(frame, flags)),
             c.free, "Ok", al \o c.allocs, <<>>)
    ELSE Ret(c.mem, c.free, "AlreadyInUse", al \o c.allocs, <<>>)

\* map_entry without the is_unused check
map_entry_overwrite(c, al, root, page, frame, flags) ==
    IF c.res # "Ok" THEN Ret(c.mem, c.free, c.res, al \o c.allocs, <<>>)
    ELSE Ret(SetEntry(c.mem, root, c.table, pt_index(page),
                      MkEntry(frame, flags \cup {PRESENT})),
             c.free, "Ok", al \o c.allocs, <<>>)

\* ActivePML4::map, lines 190-202: the leaf entry, after create_next gave c
map_entry(c, al, root, page, frame, flags) ==
    IF c.res # "Ok" THEN Ret(c.mem, c.free, c.res, al \o c.allocs, <<>>)
    ELSE IF is_unused(EntryAt(c.mem, root, c.table, pt_index(page)))
    THEN Ret(SetEntry(c.mem, root, c.table, pt_index(page),
                      MkEntry(frame, flags \cup {PRESENT})),
             c.free, "Ok", al \o c.allocs, <<>>)
    ELSE Ret(c.mem, c.free, "AlreadyInUse", al \o c.allocs, <<>>)

\* ActivePML4::map, line 188: the page table, after create_next gave the PD b
map_pd(b, al, root, page, frame, flags) ==
    IF b.res # "Ok" THEN Ret(b.mem, b.free, b.res, al \o b.allocs, <<>>)
    ELSE map_entry(create_next(b.mem, root, b.free, b.table, pd_index(page)),
                   al \o b.allocs, root, page, frame, flags)

\* ActivePML4::map, line 186: the PD, after create_next gave the PDPT a
map_pdpt(a, root, page, frame, flags) ==
    IF a.res # "Ok" THEN Ret(a.mem, a.free, a.res, a.allocs, <<>>)
    ELSE map_pd(create_next(a.mem, root, a.free, a.table, pdpt_index(page)),
                a.allocs, root, page, frame, flags)

\* ActivePML4::map
map(m, root, fr, page, frame, flags) ==
    map_pdpt(create_next(m, root, fr, PML4_PTR, pml4_index(page)),
             root, page, frame, flags)

\* ActivePML4::identity_map
identity_map(m, root, fr, frame, flags) ==
    map(m, root, fr, containing(base_addr(frame)), frame, flags)

\* ActivePML4::map_to_any, line 227, with the frame f the allocator gave
map_fresh(r, f) == Ret(r.mem, r.free, r.res, <<f>> \o r.allocs, r.deallocs)

\* map_to_any that maps a default frame when the allocator is exhausted
map_to_any_unchecked(m, root, fr, page, flags) ==
    IF fr = {} THEN map(m, root, fr, page, 0, flags)
    ELSE map_fresh(map(m, root, fr \ {Allocate(fr)}, page, Allocate(fr), flags),
                   Allocate(fr))

\* ActivePML4::map_to_any
map_to_any(m, root, fr, page, flags) ==
    IF fr = {} THEN Ret(m, fr, "Alloc", <<>>, <<>>)
    ELSE map_fresh(map(m, root, fr \ {Allocate(fr)}, page, Allocate(fr), flags),
                   Allocate(fr))

\* unmap_entry that does not look whether the entry holds a frame
unmap_entry_unchecked(m, root, fr, pt, i, frame) ==
    Ret(SetEntry(m, root, pt, i, UnusedEntry),
        IF frame = NoFrame THEN fr ELSE fr \cup {frame}, "Ok", <<>>,
        IF frame = NoFrame THEN <<>> ELSE <<frame>>)

\* unmap_entry that also unlinks the leaf table from its directory and hands
\* the table's frame to the allocator
unmap_entry_reclaim(m, root, fr, pt, i, frame) ==
    IF frame = NoFrame THEN Ret(m, fr, "NotMapped", <<>>, <<>>)
    ELSE Ret(SetEntry(SetEntry(m, root, pt, i, UnusedEntry), root,
                      <<RECURSIVE_SLOT, pt[1], pt[2], pt[3]>>, pt[4], UnusedEntry),
             fr \cup {frame, get_frame(EntryAt(m, root, <<RECURSIVE_SLOT, pt[1], pt[2], pt[3]>>, pt[4]))},
             "Ok", <<>>,
             <<frame, get_frame(EntryAt(m, root, <<RECURSIVE_SLOT, pt[1], pt[2], pt[3]>>, pt[4]))>>)

\* unmap_entry without alloc.deallocate
unmap_entry_leak(m, root, fr, pt, i, frame) ==
    IF frame = NoFrame THEN Ret(m, fr, "NotMapped", <<>>, <<>>)
    ELSE Ret(SetEntry(m, root, pt, i, UnusedEntry), fr, "Ok", <<>>, <<>>)

\* ActivePML4::unmap, lines 247-273, on the leaf table pt and the frame of
\* the page's entry in it
unmap_entry(m, root, fr, pt, i, frame) ==
    IF frame = NoFrame THEN Ret(m, fr, "NotMapped", <<>>, <<>>)
    ELSE Ret(SetEntry(m, root, pt, i, UnusedEntry), fr \cup {frame}, "Ok",
             <<>>, <<frame>>)

\* unmap_in that reports a missing leaf table as a page that is not mapped
unmap_in_not_mapped(m, root, fr, pt, i) ==
    IF pt = NoTable THEN Ret(m, fr, "NotMapped", <<>>, <<>>)
    ELSE unmap_entry(m, root, fr, pt, i, get_frame(EntryAt(m, root, pt, i)))

\* ActivePML4::unmap, lines 238-246, on the leaf table pt
unmap_in(m, root, fr, pt, i) ==
    IF pt = NoTable THEN Ret(m, fr, "HugePagesNotSupported", <<>>, <<>>)
    ELSE unmap_entry(m, root, fr, pt, i, get_frame(EntryAt(m, root, pt, i)))

\* ActivePML4::unmap
unmap(m, root, fr, page) ==
    unmap_in(m, root, fr, leaf_table(m, root, page), pt_index(page))

-----------------------------------------------------------------------------
(* TempPage (temp.rs): a reserved page and an allocator of its own for the  *)
(* directories its binding needs.                                           *)

\* TempPage::map_to_table: bind the temporary page to frame, writable; the
\* table is then addressable at the temporary page's address
temp_map_to_table(m, root, tf, frame) == map(m, root, tf, TEMP_PAGE_NUMBER, frame, {WRITABLE})

\* the handle of the table made addressable by map_to_table
TempTable == PageVA(TEMP_PAGE_NUMBER)

\* TempPage::unmap: unbind the temporary page; the frame it was bound to is a
\* table frame in use and is handed to no allocator
temp_unbound(r, tf) == Ret(r.mem, tf, r.res, <<>>, <<>>)
temp_unmap(m, root, tf) == temp_unbound(unmap(m, root, tf, TEMP_PAGE_NUMBER), tf)

-----------------------------------------------------------------------------
(* The state after boot, and the calls a kernel makes on the mapper *)

FlagChoices == {{}, {WRITABLE}}

Idle == [state |-> "idle", prev |-> NoFrame, table |-> NoFrame, before |-> NoFrame]

Call(op, page, frame, flags, r) ==
    [op |-> op, page |-> page, frame |-> frame, flags |-> flags, res |-> r.res,
     allocs |-> r.allocs, deallocs |-> r.deallocs]

NoCall == [op |-> "none", page |-> 0, frame |-> NoFrame, flags |-> {}, res |-> "Ok",
           allocs |-> <<>>, deallocs |-> <<>>]

\* a top-level table with only its self-referential entry
SelfTable(f) == [ZeroTable EXCEPT ![RECURSIVE_SLOT] = MkEntry(f, {PRESENT, WRITABLE})]

\* a directory with one entry, present and writable
Directory(i, f) == [ZeroTable EXCEPT ![i] = MkEntry(f, {PRESENT, WRITABLE})]

\* what a frame that is no table holds: anything; here entries that all
\* look present and reference the active top-level table
JunkTable == [i \in Slots |-> MkEntry(BootPML4, {PRESENT, WRITABLE})]

\* memory with an active top-level table: the recursive entry set, the
\* tables of the first two megabytes linked with no page mapped in them, and
\* the huge page behind the 300th PD entry; the other frames hold junk
BootMem ==
    [f \in Frames |->
        IF f = BootPML4 THEN [SelfTable(f) EXCEPT ![0] = MkEntry(BootPDPT, {PRESENT, WRITABLE})]
        ELSE IF f = BootPDPT THEN Directory(0, BootPD)
        ELSE IF f = BootPD
        THEN [Directory(0, BootPT) EXCEPT
                ![pd_index(HugeRegion)] = MkEntry(HugeRegion, {PRESENT, WRITABLE, HUGE_PAGE})]
        ELSE IF f = BootPT THEN ZeroTable
        ELSE JunkTable]

Init ==
    /\ mem = BootMem
    /\ cr3 = BootPML4
    /\ free = FreeFrames
    /\ tempFrames = TempFrames
    /\ caller = CallerFrames
    /\ inactive = {}
    /\ upc = Idle
    /\ last = NoCall
    /\ rpc = "none"
    /\ rin = <<>>
    /\ rst = <<>>

Remap == <<rpc, rin, rst>>

\* the effect of a mapper call that returned r, made with the kernel's allocator
Returned(r, op, page, frame, flags) ==
    /\ mem' = r.mem
    /\ free' = r.free
    /\ last' = Call(op, page, frame, flags, r)

\* the effect of a call that returned r, made with the temporary page
TempReturned(r, op, frame) ==
    /\ mem' = r.mem
    /\ tempFrames' = r.free
    /\ last' = Call(op, TEMP_PAGE_NUMBER, frame, {}, r)

\* pml4.map(page, frame, flags, alloc) with a frame the caller owns; a frame
\* that was mapped belongs to the mapping
Map(page, frame, flags) ==
    /\ frame \in caller
    /\ Returned(map(mem, cr3, free, page, frame, flags), "map", page, frame, flags)
    /\ caller' = IF last'.res = "Ok" THEN caller \ {frame} ELSE caller
    /\ UNCHANGED <<cr3, tempFrames, inactive, upc, Remap>>

\* pml4.identity_map(frame, flags, alloc)
IdentityMap(frame, flags) ==
    /\ frame \in caller
    /\ Returned(identity_map(mem, cr3, free, frame, flags), "identity_map",
                containing(base_addr(frame)), frame, flags)
    /\ caller' = IF last'.res = "Ok" THEN caller \ {frame} ELSE caller
    /\ UNCHANGED <<cr3, tempFrames, inactive, upc, Remap>>

\* pml4.map_to_any(page, flags, alloc)
MapToAny(page, flags) ==
    /\ Returned(map_to_any(mem, cr3, free, page, flags), "map_to_any", page,
                NoFrame, flags)
    /\ UNCHANGED <<cr3, tempFrames, caller, inactive, upc, Remap>>

\* pml4.unmap(page, alloc)
Unmap(page) ==
    /\ Returned(unmap(mem, cr3, free, page), "unmap", page, NoFrame, {})
    /\ UNCHANGED <<cr3, tempFrames, caller, inactive, upc, Remap>>

-----------------------------------------------------------------------------
(* Active and inactive tables *)

\* InactivePageTable::new, lines 320-324: the result, after temp.unmap gave u
new_filled(a, u) == Ret(u.mem, u.free, u.res, a.allocs, <<>>)

\* new_bound without the write of the self-referential entry
new_bound_no_self(a, root, frame) ==
    IF a.res # "Ok" THEN a
    ELSE new_filled(a, temp_unmap(zero(a.mem, root, TempTable), root, a.free))

\* new_bound without table.zero()
new_bound_no_zero(a, root, frame) ==
    IF a.res # "Ok" THEN a
    ELSE new_filled(a,
            temp_unmap(SetEntry(a.mem, root, TempTable,
                                RECURSIVE_SLOT, MkEntry(frame, {PRESENT, WRITABLE})),
                       root, a.free))

\* InactivePageTable::new, lines 316-324, after map_to_table returned a
new_bound(a, root, frame) ==
    IF a.res # "Ok" THEN a
    ELSE new_filled(a,
            temp_unmap(SetEntry(zero(a.mem, root, TempTable), root, TempTable,
                                RECURSIVE_SLOT, MkEntry(frame, {PRESENT, WRITABLE})),
                       root, a.free))

\* InactivePageTable::new
InactivePageTable_new(m, root, tf, frame) ==
    new_bound(temp_map_to_table(m, root, tf, frame), root, frame)

\* using_bound without the write of the recursive entry
using_bound_no_redirect(a, root, table) ==
    IF a.res # "Ok" THEN a
    ELSE Ret(a.mem, a.free, "Ok", a.allocs, <<>>)

\* ActivePageTable::using, lines 73-77, after map_to_table returned a
using_bound(a, root, table) ==
    IF a.res # "Ok" THEN a
    ELSE Ret(SetEntry(a.mem, root, PML4_PTR, RECURSIVE_SLOT,
                      MkEntry(table, {PRESENT, WRITABLE})),
             a.free, "Ok", a.allocs, <<>>)

\* ActivePageTable::using up to the call of the closure: back up the frame in
\* cr3, bind the temporary page to it, point the recursive entry at the
\* inactive table, flush
using_enter(m, root, tf, table) ==
    using_bound(temp_map_to_table(m, root, tf, root), root, table)

\* ActivePageTable::using, lines 90-91: the result, after temp_page.unmap gave u
using_result(u, result) ==
    Ret(u.mem, u.free, IF u.res # "Ok" THEN u.res ELSE result, <<>>, <<>>)

\* using_exit without temp_page.unmap
using_exit_no_unbind(m, root, tf, prev_pml4_frame, result) ==
    Ret(SetEntry(m, root, TempTable, RECURSIVE_SLOT,
                 MkEntry(prev_pml4_frame, {PRESENT, WRITABLE})),
        tf, result, <<>>, <<>>)

\* using_exit that restores the recursive entry through the recursive address
\* (which still resolves to the inactive table) instead of the temporary page
using_exit_recursive(m, root, tf, prev_pml4_frame, result) ==
    using_result(temp_unmap(SetEntry(m, root, PML4_PTR, RECURSIVE_SLOT,
                                     MkEntry(prev_pml4_frame, {PRESENT, WRITABLE})),
                            root, tf),
                 result)

\* ActivePageTable::using after the closure returned result: point the
\* recursive entry of the table behind the temporary page back at the saved
\* frame, flush, unbind the temporary page, return
using_exit(m, root, tf, prev_pml4_frame, result) ==
    using_result(temp_unmap(SetEntry(m, root, TempTable, RECURSIVE_SLOT,
                                     MkEntry(prev_pml4_frame, {PRESENT, WRITABLE})),
                            root, tf),
                 result)

\* InactivePageTable::new(frame, &mut active_table, &mut temp) on a frame the
\* caller owns
New(frame) ==
    /\ upc.state = "idle"
    /\ frame \in caller
    /\ TempReturned(InactivePageTable_new(mem, cr3, tempFrames, frame), "new", frame)
    /\ inactive' = IF last'.res = "Ok" THEN inactive \cup {frame} ELSE inactive
    /\ caller' = caller \ {frame}
    /\ UNCHANGED <<cr3, free, upc, Remap>>

\* active.using(&mut table, &mut temp, f) enters; on Ok the closure f runs next
UsingBegin(table) ==
    /\ upc.state = "idle"
    /\ table \in inactive
    /\ TempReturned(using_enter(mem, cr3, tempFrames, table), "using", table)
    /\ upc' = IF last'.res = "Ok"
              THEN [state |-> "closure", prev |-> cr3, table |-> table,
                    before |-> get_frame(Rd(mem, cr3, RECURSIVE_SLOT))]
              ELSE [Idle EXCEPT !.before = get_frame(Rd(mem, cr3, RECURSIVE_SLOT))]
    /\ UNCHANGED <<cr3, free, caller, inactive, Remap>>

\* the closure returns result and using returns
UsingEnd(result) ==
    /\ upc.state = "closure"
    /\ TempReturned(using_exit(mem, cr3, tempFrames, upc.prev, result), "using",
                    upc.table)
    /\ upc' = [Idle EXCEPT !.before = upc.before]
    /\ UNCHANGED <<cr3, free, caller, inactive, Remap>>

\* replace_with that hands back the table it was given instead of the old one
ReplaceWithReturnsNew(new_table) ==
    /\ upc.state = "idle"
    /\ new_table \in inactive
    /\ cr3' = new_table
    /\ inactive' = inactive
    /\ last' = [NoCall EXCEPT !.op = "replace_with", !.frame = new_table]
    /\ UNCHANGED <<mem, free, tempFrames, caller, upc, Remap>>

\* active.replace_with(new_table): new_table is moved in, the old table comes
\* back as an InactivePageTable
ReplaceWith(new_table) ==
    /\ upc.state = "idle"
    /\ new_table \in inactive
    /\ cr3' = new_table
    /\ inactive' = (inactive \ {new_table}) \cup {cr3}
    /\ last' = [NoCall EXCEPT !.op = "replace_with", !.frame = new_table]
    /\ UNCHANGED <<mem, free, tempFrames, caller, upc, Remap>>

Next ==
    \/ \E p \in UserPages, f \in Frames, fl \in FlagChoices : Map(p, f, fl)
    \/ \E f \in Frames : IdentityMap(f, {WRITABLE})
    \/ \E p \in UserPages : MapToAny(p, {})
    \/ \E p \in UserPages \cup CallerFrames \cup ProbePages : Unmap(p)

Spec == Init /\ [][Next]_vars

\* the results a closure passed to using can return
ClosureResults == {"Ok", "AlreadyInUse"}

\* the page a closure maps
ClosurePages == {N_ENTRIES}

TableNext ==
    \/ \E f \in Frames : New(f)
    \/ \E t \in Frames : UsingBegin(t)
    \/ \E res \in ClosureResults : UsingEnd(res)
    \/ \E t \in Frames : ReplaceWith(t)
    \/ \E p \in ClosurePages, f \in Frames : Map(p, f, {WRITABLE})
    \/ \E p \in ClosurePages : MapToAny(p, {})
    \/ \E p \in ClosurePages : Unmap(p)

TableSpec == Init /\ [][TableNext]_vars

-----------------------------------------------------------------------------
(* kernel_remap *)

\* Addr::is_page_aligned
is_page_aligned(addr) == addr % PAGE_SIZE = 0

\* EntryFlags::from(section): the section's writable and executable attributes
SectionFlags(s) ==
    (IF s.writable THEN {WRITABLE} ELSE {}) \cup (IF s.executable THEN {} ELSE {NO_EXECUTE})

\* PhysicalPage::from(PAddr): the frame containing the address
FrameOf(addr) == containing(addr)

Section(addr, end, allocated, writable, executable) ==
    [addr |-> addr, end |-> end, allocated |-> allocated, writable |-> writable,
     executable |-> executable]

\* the address of the k-th frame of the kernel image; the boot PML4 is frame 0
\* of the image (a table in the kernel's .bss)
K(k) == base_addr(BootPML4 + k)
HalfPage == PAGE_SIZE \div 2

Input(sections, mb_start, mb_end) ==
    [sections |-> sections, multiboot_start |-> mb_start, multiboot_end |-> mb_end]

\* the InitParams kernel_remap is run on
RemapInputs == {
    \* two sections of whole pages, the boot PML4 in the first
    Input(<<Section(K(0), K(2), TRUE, TRUE, FALSE), Section(K(2), K(3), TRUE, FALSE, TRUE)>>,
          K(3), K(4)),
    \* the boot PML4 in no section
    Input(<<Section(K(1), K(3), TRUE, FALSE, TRUE)>>, K(3), K(4)),
    \* a section that ends inside a page
    Input(<<Section(K(0), K(1) + HalfPage, TRUE, TRUE, FALSE)>>, K(3), K(4)),
    \* a section that is not loaded, then one that does not start on a page
    Input(<<Section(K(0), K(1), TRUE, TRUE, FALSE), Section(K(1), K(2), FALSE, FALSE, FALSE),
            Section(K(2) + HalfPage, K(3), TRUE, FALSE, TRUE)>>, K(3), K(4)),
    \* boot information overlapping the last section
    Input(<<Section(K(0), K(2), TRUE, TRUE, FALSE)>>, K(1), K(3)),
    \* no section at all
    Input(<<>>, K(3), K(3))
  }

\* the frames the kernel's allocator may start with in kernel_remap
RemapPool == CallerFrames \cup FreeFrames

Locals == [new_table |-> NoFrame, old_table |-> NoFrame, sec |-> 1, frame |-> NoFrame,
           result |-> "Ok", ret |-> "Running"]

\* the state kernel_remap starts in: the bootloader's table in cr3, the
\* temporary page created (line 375)
RInit ==
    /\ mem = BootMem
    /\ cr3 = BootPML4
    /\ \E k \in 0 .. Cardinality(RemapPool) : free = {f \in RemapPool : f < k}
    /\ tempFrames = TempFrames
    /\ caller = {}
    /\ inactive = {}
    /\ upc = Idle
    /\ last = NoCall
    /\ rpc = "new"
    /\ rin \in RemapInputs
    /\ rst = Locals

NotRemap == <<caller, inactive, upc>>

Return(res) == rst' = [rst EXCEPT !.ret = res] /\ rpc' = "done"

\* lines 382-393, with the frame f that alloc.allocate() gave
RemapNewIn(r, f) ==
    /\ mem' = r.mem
    /\ tempFrames' = r.free
    /\ free' = free \ {f}
    /\ last' = Call("new", TEMP_PAGE_NUMBER, f, {}, r)
    /\ IF r.res = "Ok"
       THEN rst' = [rst EXCEPT !.new_table = f] /\ rpc' = "using"
       ELSE Return(r.res)

\* lines 382-393: allocate a frame and make it the new, inactive table
RemapNew ==
    /\ rpc = "new"
    /\ IF free = {}
       THEN /\ Return("Alloc")
            /\ UNCHANGED <<mem, tempFrames, free, last>>
       ELSE RemapNewIn(InactivePageTable_new(mem, cr3, tempFrames, Allocate(free)),
                       Allocate(free))
    /\ UNCHANGED <<cr3, rin, NotRemap>>

\* line 397: current_table.using(&mut new_table, &mut temp_page, ..) enters
RemapUsingIn(r) ==
    /\ mem' = r.mem
    /\ tempFrames' = r.free
    /\ last' = Call("using", TEMP_PAGE_NUMBER, rst.new_table, {}, r)
    /\ IF r.res = "Ok"
       THEN rpc' = "sections" /\ rst' = [rst EXCEPT !.old_table = cr3]
       ELSE Return(r.res)

RemapUsing ==
    /\ rpc = "using"
    /\ RemapUsingIn(using_enter(mem, cr3, tempFrames, rst.new_table))
    /\ UNCHANGED <<cr3, free, rin, NotRemap>>

\* the closure fails with res: using still restores and unbinds (lines 82-90)
CloseWith(res) == rst' = [rst EXCEPT !.result = res] /\ rpc' = "exit"

\* lines 405-425: the next section; one that is not allocated is filtered
\* out, one that does not start on a page fails the closure
RemapSection ==
    /\ rpc = "sections"
    /\ rst.frame = NoFrame
    /\ IF rst.sec > Len(rin.sections)
       THEN rpc' = "vga" /\ rst' = rst
       ELSE IF ~rin.sections[rst.sec].allocated
       THEN rpc' = rpc /\ rst' = [rst EXCEPT !.sec = @ + 1]
       ELSE IF ~is_page_aligned(rin.sections[rst.sec].addr)
       THEN CloseWith("NoPage")
       ELSE rpc' = rpc /\ rst' = [rst EXCEPT !.frame = FrameOf(rin.sections[rst.sec].addr)]
    /\ UNCHANGED <<mem, cr3, free, tempFrames, last, rin, NotRemap>>

\* lines 413-415: one turn of for frame in start_frame .. end_frame
RemapFrameIn(r, next) ==
    /\ mem' = r.mem
    /\ free' = r.free
    /\ last' = Call("identity_map", rst.frame, rst.frame, {}, r)
    /\ IF r.res = "Ok" THEN rpc' = rpc /\ rst' = [rst EXCEPT !.frame = next]
       ELSE CloseWith(r.res)

RemapSectionFrame ==
    /\ rpc = "sections"
    /\ rst.frame # NoFrame
    /\ IF rst.frame < FrameOf(rin.sections[rst.sec].end)
       THEN RemapFrameIn(identity_map(mem, cr3, free, rst.frame,
                                      SectionFlags(rin.sections[rst.sec])),
                         rst.frame + 1)
       ELSE /\ rpc' = rpc
            /\ rst' = [rst EXCEPT !.frame = NoFrame, !.sec = @ + 1]
            /\ UNCHANGED <<mem, free, last>>
    /\ UNCHANGED <<cr3, tempFrames, rin, NotRemap>>

\* lines 428-430: the VGA buffer, then the first frame of the boot information
RemapVgaIn(r) ==
    /\ mem' = r.mem
    /\ free' = r.free
    /\ last' = Call("identity_map", containing(VGA_BUFFER), containing(VGA_BUFFER), {}, r)
    /\ IF r.res = "Ok"
       THEN rpc' = "multiboot" /\ rst' = [rst EXCEPT !.frame = FrameOf(rin.multiboot_start)]
       ELSE CloseWith(r.res)

RemapVga ==
    /\ rpc = "vga"
    /\ RemapVgaIn(identity_map(mem, cr3, free, containing(VGA_BUFFER), {WRITABLE}))
    /\ UNCHANGED <<cr3, tempFrames, rin, NotRemap>>

\* lines 435-442: one turn of for frame in multiboot_start .. multiboot_end
RemapMultiboot ==
    /\ rpc = "multiboot"
    /\ IF rst.frame < FrameOf(rin.multiboot_end)
       THEN RemapFrameIn(identity_map(mem, cr3, free, rst.frame, {PRESENT}), rst.frame + 1)
       ELSE /\ CloseWith("Ok")
            /\ UNCHANGED <<mem, free, last>>
    /\ UNCHANGED <<cr3, tempFrames, rin, NotRemap>>

\* lines 82-91 and 443: using restores, unbinds and returns; an error returns
RemapExitIn(r) ==
    /\ mem' = r.mem
    /\ tempFrames' = r.free
    /\ last' = Call("using", TEMP_PAGE_NUMBER, rst.new_table, {}, r)
    /\ IF r.res = "Ok" THEN rpc' = "replace" /\ rst' = rst ELSE Return(r.res)

RemapExit ==
    /\ rpc = "exit"
    /\ RemapExitIn(using_exit(mem, cr3, tempFrames, rst.old_table, rst.result))
    /\ UNCHANGED <<cr3, free, rin, NotRemap>>

\* line 447: current_table.replace_with(new_table)
RemapReplace ==
    /\ rpc = "replace"
    /\ cr3' = rst.new_table
    /\ rst' = [rst EXCEPT !.old_table = cr3]
    /\ rpc' = "guard"
    /\ last' = [NoCall EXCEPT !.op = "replace_with", !.frame = rst.new_table]
    /\ UNCHANGED <<mem, free, tempFrames, rin, NotRemap>>

\* the guard step returning Ok with the page left mapped
RemapGuardSkipped(r, page) ==
    /\ UNCHANGED <<mem, free>>
    /\ last' = Call("unmap", page, NoFrame, {}, r)
    /\ Return("Ok")

\* lines 451-455: unmap the page at the old table's address
RemapGuardIn(r, page) ==
    /\ mem' = r.mem
    /\ free' = r.free
    /\ last' = Call("unmap", page, NoFrame, {}, r)
    /\ Return(r.res)

RemapGuard ==
    /\ rpc = "guard"
    /\ RemapGuardIn(unmap(mem, cr3, free, containing(base_addr(rst.old_table))),
                    containing(base_addr(rst.old_table)))
    /\ UNCHANGED <<cr3, tempFrames, rin, NotRemap>>

RemapNext ==
    \/ RemapNew
    \/ RemapUsing
    \/ RemapSection
    \/ RemapSectionFrame
    \/ RemapVga
    \/ RemapMultiboot
    \/ RemapExit
    \/ RemapReplace
    \/ RemapGuard

RemapSpec == RInit /\ [][RemapNext]_vars

-----------------------------------------------------------------------------
(* Index extraction on its own: the indices of an address, src/memory/mod.rs *)

\* the page numbers (address >> 12) of the addresses the indices are taken of
IndexInputs ==
    {((a * N_ENTRIES + b) * N_ENTRIES + c) * N_ENTRIES + d :
        a \in {0, 1, 15}, b \in {0, 1, RECURSIVE_SLOT},
        c \in {0, 1, 300, RECURSIVE_SLOT}, d \in {0, 1, RECURSIVE_SLOT}}

IInit ==
    /\ mem = BootMem
    /\ cr3 = BootPML4
    /\ free = FreeFrames
    /\ tempFrames = TempFrames
    /\ caller = CallerFrames
    /\ inactive = {}
    /\ upc = Idle
    /\ last = NoCall
    /\ rpc = "index"
    /\ rin \in IndexInputs
    /\ rst = <<>>

\* vaddr.pml4_index(), pdpt_index(), pd_index(), pt_index()
IndexOf ==
    /\ rpc = "index"
    /\ rpc' = "indexed"
    /\ rst' = [pml4 |-> pml4_index(rin), pdpt |-> pdpt_index(rin),
               pd |-> pd_index(rin), pt |-> pt_index(rin)]
    /\ UNCHANGED <<mem, cr3, free, tempFrames, caller, inactive, upc, last, rin>>

IndexSpec == IInit /\ [][IndexOf]_vars

-----------------------------------------------------------------------------
(* ActivePageTable::using statement by statement. upc.state is the statement *)
(* about to run, rst the events of the call so far, rin the closure's result *)

\* an event of using: what happened, the frame concerned and, for a write of
\* slot 511, the address the top-level table was written through
Ev(ev, frame, via) == [ev |-> ev, frame |-> frame, via |-> via]

At(state) == upc' = [upc EXCEPT !.state = state]

\* using returns
UsingDone == upc' = [Idle EXCEPT !.before = upc.before]

\* line 66: the call; prev_pml4_frame = cr3::current_pagetable_frame()
UsingRead(table) ==
    /\ upc.state = "idle"
    /\ table \in inactive
    /\ upc' = [state |-> "bind", prev |-> cr3, table |-> table,
               before |-> get_frame(Rd(mem, cr3, RECURSIVE_SLOT))]
    /\ rst' = <<>>
    /\ UNCHANGED <<mem, cr3, free, tempFrames, caller, inactive, last, rpc, rin>>

\* line 70 without the ?: the statements after it run whatever map_to_table gave
UsingBindUnchecked(r) ==
    /\ mem' = r.mem
    /\ tempFrames' = r.free
    /\ rst' = IF r.res = "Ok" THEN Append(rst, Ev("bind", upc.prev, "none")) ELSE rst
    /\ At("redirect")
    /\ last' = last

\* line 70, with the result r of temp_page.map_to_table(prev_pml4_frame, self)
UsingBindIn(r) ==
    /\ mem' = r.mem
    /\ tempFrames' = r.free
    /\ IF r.res = "Ok"
       THEN /\ rst' = Append(rst, Ev("bind", upc.prev, "none"))
            /\ At("redirect")
            /\ last' = last
       ELSE /\ rst' = rst
            /\ UsingDone
            /\ last' = Call("using", TEMP_PAGE_NUMBER, upc.table, {}, r)

UsingBind ==
    /\ upc.state = "bind"
    /\ UsingBindIn(temp_map_to_table(mem, cr3, tempFrames, upc.prev))
    /\ UNCHANGED <<cr3, free, caller, inactive, rpc, rin>>

\* line 73: self.pml4_mut()[511].set(table.pml4_frame, PRESENT | WRITABLE)
UsingRedirect ==
    /\ upc.state = "redirect"
    /\ mem' = SetEntry(mem, cr3, PML4_PTR, RECURSIVE_SLOT,
                       MkEntry(upc.table, {PRESENT, WRITABLE}))
    /\ rst' = Append(rst, Ev("write511", upc.table, "recursive"))
    /\ At("flush1")
    /\ UNCHANGED <<cr3, free, tempFrames, caller, inactive, last, rpc, rin>>

\* line 76: flush_all()
UsingFlush1 ==
    /\ upc.state = "flush1"
    /\ rst' = Append(rst, Ev("flush_all", NoFrame, "none"))
    /\ At("call")
    /\ UNCHANGED <<mem, cr3, free, tempFrames, caller, inactive, last, rpc, rin>>

\* line 80: f(self) is called
UsingCall ==
    /\ upc.state = "call"
    /\ rst' = Append(rst, Ev("callback", NoFrame, "none"))
    /\ At("closure")
    /\ UNCHANGED <<mem, cr3, free, tempFrames, caller, inactive, last, rpc, rin>>

\* line 80: f returns result
UsingReturn(result) ==
    /\ upc.state = "closure"
    /\ rin' = result
    /\ At("restore")
    /\ UNCHANGED <<mem, cr3, free, tempFrames, caller, inactive, last, rpc, rst>>

\* line 83: pml4[511].set(prev_pml4_frame, PRESENT | WRITABLE), pml4 being the
\* table behind the temporary page
UsingRestore ==
    /\ upc.state = "restore"
    /\ mem' = SetEntry(mem, cr3, TempTable, RECURSIVE_SLOT,
                       MkEntry(upc.prev, {PRESENT, WRITABLE}))
    /\ rst' = Append(rst, Ev("write511", upc.prev, "temp"))
    /\ At("flush2")
    /\ UNCHANGED <<cr3, free, tempFrames, caller, inactive, last, rpc, rin>>

\* line 87: flush_all()
UsingFlush2 ==
    /\ upc.state = "flush2"
    /\ rst' = Append(rst, Ev("flush_all", NoFrame, "none"))
    /\ At("unbind")
    /\ UNCHANGED <<mem, cr3, free, tempFrames, caller, inactive, last, rpc, rin>>

\* lines 90-91, with the result u of temp_page.unmap(self)
UsingUnbindIn(u) ==
    /\ mem' = u.mem
    /\ tempFrames' = u.free
    /\ rst' = IF u.res = "Ok" THEN Append(rst, Ev("unbind", NoFrame, "none")) ELSE rst
    /\ UsingDone
    /\ last' = Call("using", TEMP_PAGE_NUMBER, upc.table, {}, using_result(u, rin))

UsingUnbind ==
    /\ upc.state = "unbind"
    /\ UsingUnbindIn(temp_unmap(mem, cr3, tempFrames))
    /\ UNCHANGED <<cr3, free, caller, inactive, rpc, rin>>

UsingNext ==
    \/ \E f \in Frames : New(f)
    \/ \E t \in Frames : ReplaceWith(t)
    \/ \E t \in Frames : UsingRead(t)
    \/ UsingBind
    \/ UsingRedirect
    \/ UsingFlush1
    \/ UsingCall
    \/ \E p \in ClosurePages, f \in Frames : upc.state = "closure" /\ Map(p, f, {WRITABLE})
    \/ \E res \in ClosureResults : UsingReturn(res)
    \/ UsingRestore
    \/ UsingFlush2
    \/ UsingUnbind

UsingSpec == Init /\ [][UsingNext]_vars

-----------------------------------------------------------------------------
(* ActivePML4::unmap statement by statement, with the processor's lookaside *)
(* cache. rpc is the statement about to run, rin the page, rst the locals,  *)
(* the events of the call so far and the cached translations                *)

UnmapLocals == [events |-> <<>>, tlb |-> {}, pt |-> NoTable, frame |-> NoFrame,
                res |-> "Running"]

UnmapInit ==
    /\ mem = BootMem
    /\ cr3 = BootPML4
    /\ free = FreeFrames
    /\ tempFrames = TempFrames
    /\ caller = CallerFrames
    /\ inactive = {}
    /\ upc = Idle
    /\ last = NoCall
    /\ rpc = "none"
    /\ rin = 0
    /\ rst = UnmapLocals

\* the lookaside cache holds a translation of page
Cached(page) == \E c \in rst.tlb : c[1] = page

\* an event of unmap: what happened, and whether a translation of the page
\* was cached when it happened
UnmapEvent(ev) == Append(rst.events, [ev |-> ev, cached |-> Cached(rin)])

\* unmap with the frame handed back before the entry is cleared
UnmapAfterFreeFirst(step) ==
    CASE step = "get_frame" -> "deallocate"
      [] step = "deallocate" -> "set_unused"
      [] step = "set_unused" -> "invlpg"
      [] step = "invlpg" -> "return"

\* the statement of lines 250-273 that follows step
UnmapAfter(step) ==
    CASE step = "get_frame" -> "set_unused"
      [] step = "set_unused" -> "invlpg"
      [] step = "invlpg" -> "deallocate"
      [] step = "deallocate" -> "return"

\* the processor reads or writes a mapped page and caches its translation
Access(page) ==
    /\ HW(mem, cr3, PageVA(page)) # NoFrame
    /\ rst' = [rst EXCEPT !.tlb = @ \cup {<<page, HW(mem, cr3, PageVA(page))>>}]
    /\ UNCHANGED <<mem, cr3, free, tempFrames, caller, inactive, upc, last, rpc, rin>>

\* unmap(page, alloc) is called
UnmapCall(page) ==
    /\ rpc = "none"
    /\ rpc' = "descend"
    /\ rin' = page
    /\ rst' = [UnmapLocals EXCEPT !.tlb = rst.tlb]
    /\ UNCHANGED <<mem, cr3, free, tempFrames, caller, inactive, upc, last>>

\* lines 238-246: the leaf table of the page, or the error
UnmapDescend ==
    /\ rpc = "descend"
    /\ IF leaf_table(mem, cr3, rin) = NoTable
       THEN rpc' = "return" /\ rst' = [rst EXCEPT !.res = "HugePagesNotSupported"]
       ELSE rpc' = "get_frame" /\ rst' = [rst EXCEPT !.pt = leaf_table(mem, cr3, rin)]
    /\ UNCHANGED <<mem, cr3, free, tempFrames, caller, inactive, upc, last, rin>>

\* lines 248-256: the frame of the page's entry, or the error
UnmapGetFrame ==
    /\ rpc = "get_frame"
    /\ IF get_frame(EntryAt(mem, cr3, rst.pt, pt_index(rin))) = NoFrame
       THEN rpc' = "return" /\ rst' = [rst EXCEPT !.res = "NotMapped"]
       ELSE /\ rpc' = UnmapAfter("get_frame")
            /\ rst' = [rst EXCEPT
                         !.frame = get_frame(EntryAt(mem, cr3, rst.pt, pt_index(rin)))]
    /\ UNCHANGED <<mem, cr3, free, tempFrames, caller, inactive, upc, last, rin>>

\* line 259: entry.set_unused()
UnmapSetUnused ==
    /\ rpc = "set_unused"
    /\ mem' = SetEntry(mem, cr3, rst.pt, pt_index(rin), UnusedEntry)
    /\ rst' = [rst EXCEPT !.events = UnmapEvent("set_unused")]
    /\ rpc' = UnmapAfter("set_unused")
    /\ UNCHANGED <<cr3, free, tempFrames, caller, inactive, upc, last, rin>>

\* line 263: page.invlpg() drops the cached translations of the page
UnmapInvlpg ==
    /\ rpc = "invlpg"
    /\ rst' = [rst EXCEPT !.events = UnmapEvent("invlpg"),
                          !.tlb = {c \in @ : c[1] # rin}]
    /\ rpc' = UnmapAfter("invlpg")
    /\ UNCHANGED <<mem, cr3, free, tempFrames, caller, inactive, upc, last, rin>>

\* line 268: alloc.deallocate(frame)
UnmapDeallocate ==
    /\ rpc = "deallocate"
    /\ free' = free \cup {rst.frame}
    /\ rst' = [rst EXCEPT !.events = UnmapEvent("deallocate")]
    /\ rpc' = UnmapAfter("deallocate")
    /\ UNCHANGED <<mem, cr3, tempFrames, caller, inactive, upc, last, rin>>

\* what the call returns
UnmapResult ==
    Ret(mem, free, IF rst.res = "Running" THEN "Ok" ELSE rst.res, <<>>,
        IF rst.res = "Running" THEN <<rst.frame>> ELSE <<>>)

\* lines 246, 256, 273: unmap returns
UnmapReturn ==
    /\ rpc = "return"
    /\ rpc' = "none"
    /\ last' = Call("unmap", rin, NoFrame, {}, UnmapResult)
    /\ UNCHANGED <<mem, cr3, free, tempFrames, caller, inactive, upc, rin, rst>>

UnmapNext ==
    \/ \E p \in UserPages, f \in Frames : rpc = "none" /\ Map(p, f, {WRITABLE})
    \/ \E p \in UserPages : rpc = "none" /\ MapToAny(p, {})
    \/ \E p \in UserPages : Access(p)
    \/ \E p \in UserPages \cup ProbePages : UnmapCall(p)
    \/ UnmapDescend
    \/ UnmapGetFrame
    \/ UnmapSetUnused
    \/ UnmapInvlpg
    \/ UnmapDeallocate
    \/ UnmapReturn

UnmapSpec == UnmapInit /\ [][UnmapNext]_vars

-----------------------------------------------------------------------------
(* PageRange and PageRangeIter, src/memory/mod.rs. rin is the range, rst the *)
(* iterator in use and what it has yielded                                   *)

\* the largest page number of a range, the number of calls of next() that
\* return None, and the number of calls of iter()
MaxPage == 3
MaxNones == 2
MaxIters == 2

\* PageRange { start, end }
PageRange(start, end) == [start |-> start, end |-> end]

\* PageRange::iter, line 148
PageRangeIter(range) == [current |-> range.start, yielded |-> <<>>, nones |-> 0]

RangeInit ==
    /\ mem = BootMem
    /\ cr3 = BootPML4
    /\ free = FreeFrames
    /\ tempFrames = TempFrames
    /\ caller = CallerFrames
    /\ inactive = {}
    /\ upc = Idle
    /\ last = NoCall
    /\ rpc = "iter"
    /\ rin \in {PageRange(a, b) : a \in 0 .. MaxPage, b \in 0 .. MaxPage}
    /\ rst = [it |-> PageRangeIter(rin), iters |-> 1, done |-> {}]

\* the test of line 167 with <= in place of <
has_next_closed(current, end) == current <= end

\* line 167: self.current < end
has_next(current, end) == current < end

\* PageRangeIter::next, lines 167-173, on the iterator it
next(it, end) ==
    IF has_next(it.current, end)
    THEN [it EXCEPT !.current = @ + 1, !.yielded = Append(@, it.current)]
    ELSE [it EXCEPT !.nones = @ + 1]

\* range.iter(): another iterator over the same range; the sequence of an
\* iterator that had come to its end is kept
RangeIter ==
    /\ rpc = "iter"
    /\ rst.iters < MaxIters
    /\ rst' = [it |-> PageRangeIter(rin), iters |-> rst.iters + 1,
               done |-> IF rst.it.nones > 0 THEN rst.done \cup {rst.it.yielded}
                        ELSE rst.done]
    /\ UNCHANGED <<mem, cr3, free, tempFrames, caller, inactive, upc, last, rpc, rin>>

\* it.next(); the assertion of line 166 fails on a range with start > end
RangeIterNext ==
    /\ rpc = "iter"
    /\ rst.it.nones < MaxNones
    /\ IF rin.start <= rin.end
       THEN rpc' = rpc /\ rst' = [rst EXCEPT !.it = next(rst.it, rin.end)]
       ELSE rpc' = "panic" /\ rst' = rst
    /\ UNCHANGED <<mem, cr3, free, tempFrames, caller, inactive, upc, last, rin>>

RangeNext ==
    \/ RangeIter
    \/ RangeIterNext

RangeSpec == RangeInit /\ [][RangeNext]_vars

-----------------------------------------------------------------------------
(* translate_page on hierarchies with a huge entry. rin is the entry's      *)
(* level and start frame and two pages it covers, rst their translations    *)

\* the largest PD and PT index of the pages looked up under a huge entry
MaxHugeIndex == 2

\* the PDPT slot given a huge entry
HugePDPTSlot == 1

\* the start frames of a 1 GiB page and of a 2 MiB page
HugeStarts(level) ==
    IF level = "pdpt" THEN {N_ENTRIES * N_ENTRIES, 2 * N_ENTRIES * N_ENTRIES}
    ELSE {HugeRegion, HugeRegion + N_ENTRIES}

\* the pages looked up under the huge entry of the level
HugePages(level) ==
    {(IF level = "pdpt" THEN HugePDPTSlot * N_ENTRIES * N_ENTRIES ELSE HugeRegion)
        + c * N_ENTRIES + d :
        c \in IF level = "pdpt" THEN 0 .. MaxHugeIndex ELSE {0}, d \in 0 .. MaxHugeIndex}

\* the bootloader's hierarchy with a huge entry of the level, starting at frame start
HugeMem(level, start) ==
    IF level = "pdpt"
    THEN [BootMem EXCEPT
            ![BootPDPT][HugePDPTSlot] = MkEntry(start, {PRESENT, WRITABLE, HUGE_PAGE})]
    ELSE [BootMem EXCEPT
            ![BootPD][pd_index(HugeRegion)] = MkEntry(start, {PRESENT, WRITABLE, HUGE_PAGE})]

HugeInputs ==
    {[level |-> l, start |-> s, p |-> p, q |-> q] :
        l \in {"pdpt"}, s \in HugeStarts("pdpt"), p \in HugePages("pdpt"),
        q \in HugePages("pdpt")}
    \cup
    {[level |-> l, start |-> s, p |-> p, q |-> q] :
        l \in {"pd"}, s \in HugeStarts("pd"), p \in HugePages("pd"),
        q \in HugePages("pd")}

HugeInit ==
    /\ rin \in HugeInputs
    /\ mem = HugeMem(rin.level, rin.start)
    /\ cr3 = BootPML4
    /\ free = FreeFrames
    /\ tempFrames = TempFrames
    /\ caller = CallerFrames
    /\ inactive = {}
    /\ upc = Idle
    /\ last = NoCall
    /\ rpc = "translate"
    /\ rst = <<>>

\* pml4.translate_page(p) and pml4.translate_page(q)
HugeTranslate ==
    /\ rpc = "translate"
    /\ rpc' = "translated"
    /\ rst' = [p |-> translate_page(mem, cr3, rin.p), q |-> translate_page(mem, cr3, rin.q)]
    /\ UNCHANGED <<mem, cr3, free, tempFrames, caller, inactive, upc, last, rin>>

HugeSpec == HugeInit /\ [][HugeTranslate]_vars

-----------------------------------------------------------------------------
(* The mapper called with frames the caller keeps: Frame is Copy, and map   *)
(* takes whatever frame it is given                                         *)

\* pml4.map(page, frame, flags, alloc) with a copy of a frame of the caller
MapCopy(page, frame, flags) ==
    /\ frame \in caller
    /\ Returned(map(mem, cr3, free, page, frame, flags), "map", page, frame, flags)
    /\ UNCHANGED <<cr3, tempFrames, caller, inactive, upc, Remap>>

CopyNext ==
    \/ \E p \in UserPages, f \in Frames : MapCopy(p, f, {WRITABLE})
    \/ \E p \in UserPages : Unmap(p)

CopySpec == Init /\ [][CopyNext]_vars

-----------------------------------------------------------------------------
(* Properties *)

\* the pages the mapper calls of Spec are made on
Pages == UserPages \cup CallerFrames

\* the leaf entry of page in the hierarchy the mapper addresses
LeafEntry(m, root, page) ==
    IF leaf_table(m, root, page) = NoTable THEN UnusedEntry
    ELSE EntryAt(m, root, leaf_table(m, root, page), pt_index(page))

MapperOps == {"map", "identity_map", "map_to_any", "unmap"}

\* C1: once map(P, F, ..) returned Ok, translate_page(P) is F, and every later
\* map, identity_map, map_to_any or unmap call leaves the translation of a
\* translated page as it is, except a successful unmap of that page.
C1_RoundTrip ==
    [][\A p \in Pages :
        /\ (last'.op \in {"map", "identity_map"} /\ last'.page = p /\ last'.res = "Ok")
            => translate_page(mem', cr3', p) = last'.frame
        /\ (/\ translate_page(mem, cr3, p) # NoFrame
            /\ last'.op \in MapperOps
            /\ ~(last'.op = "unmap" /\ last'.page = p /\ last'.res = "Ok"))
            => translate_page(mem', cr3', p) = translate_page(mem, cr3, p)]_vars

\* a page mapped by map still translates to its frame after another page was
\* mapped with new directories and a third one unmapped
C1_Witness ==
    /\ last.op = "unmap" /\ last.res = "Ok"
    /\ \E p \in Pages \ {last.page} : translate_page(mem, cr3, p) \in CallerFrames
    /\ \E p \in Pages \ {last.page} : translate_page(mem, cr3, p) \in FreeFrames

\* C2: map on a page whose leaf entry is in use returns AlreadyInUse and
\* changes neither the entry nor any other: the page still translates to the
\* frame it was mapped to, with the flags it was mapped with.
C2_NoSilentOverwrite ==
    [][\A p \in Pages :
        (/\ last'.op \in {"map", "identity_map"} /\ last'.page = p
         /\ ~is_unused(LeafEntry(mem, cr3, p)))
        => /\ last'.res = "AlreadyInUse"
           /\ LeafEntry(mem', cr3', p) = LeafEntry(mem, cr3, p)
           /\ translate_page(mem', cr3', p) = translate_page(mem, cr3, p)
           /\ mem' = mem]_vars

\* map was refused on a page that is mapped to another frame, writable
C2_Witness ==
    /\ last.op = "map" /\ last.res = "AlreadyInUse"
    /\ translate_page(mem, cr3, last.page) \notin {NoFrame, last.frame}
    /\ WRITABLE \in LeafEntry(mem, cr3, last.page).flags

\* C3: a successful unmap(P) passes to deallocate, once, the frame P's leaf
\* entry referenced before the call, and P has no translation afterwards.
C3_UnmapReleasesOnce ==
    [][\A p \in Pages :
        (last'.op = "unmap" /\ last'.page = p /\ last'.res = "Ok")
        => /\ last'.deallocs = <<get_frame(LeafEntry(mem, cr3, p))>>
           /\ get_frame(LeafEntry(mem, cr3, p)) # NoFrame
           /\ free' = free \cup {get_frame(LeafEntry(mem, cr3, p))}
           /\ translate_page(mem', cr3', p) = NoFrame]_vars

\* an unmap succeeded and returned a frame that the caller had mapped
C3_Witness ==
    /\ last.op = "unmap" /\ last.res = "Ok"
    /\ Len(last.deallocs) = 1
    /\ last.deallocs[1] \in CallerFrames \cap free

\* C4: when using has returned, with Ok or with an error, slot 511 of the
\* table in the base register references that table's frame, as before the
\* call.
C4_SelfReferencePreserved ==
    (last.op = "using" /\ upc.state = "idle")
    => /\ get_frame(Rd(mem, cr3, RECURSIVE_SLOT)) = cr3
       /\ upc.before = cr3

\* using returned the closure's error after the closure mapped a page in the
\* inactive table
C4_Witness ==
    /\ last.op = "using" /\ upc.state = "idle" /\ last.res = "AlreadyInUse"
    /\ \E t \in inactive : \E i \in Slots \ {RECURSIVE_SLOT} : ~is_unused(Rd(mem, t, i))

\* offsets inside a page
Offsets == {0, 1, PAGE_SIZE - 1}

\* pages whose addresses fit the model checker's integers
LowPages == {p \in Pages : p < N_ENTRIES * N_ENTRIES}

\* C5: if translate_page of the page containing A is F, translate(A) is the
\* physical address F.number * 4096 + (A mod 4096).
C5_TranslateAddsOffset ==
    \A p \in LowPages, off \in Offsets :
        translate_page(mem, cr3, p) # NoFrame
        => translate(mem, cr3, base_addr(p) + off)
            = translate_page(mem, cr3, p) * PAGE_SIZE + off

\* C6: when kernel_remap has returned an error, the base register holds the
\* bootloader's table.
C6_FailFastBeforeInstall ==
    (rpc = "done" /\ rst.ret # "Ok") => cr3 = BootPML4

\* C7: map_to_any called when the allocator is exhausted returns the
\* allocation error, having allocated nothing and changed no entry.
C7_ExhaustedMapToAny ==
    [][(last'.op = "map_to_any" /\ free = {})
        => (last'.res = "Alloc" /\ last'.allocs = <<>> /\ mem' = mem /\ free' = free)]_vars

\* map_to_any failed on an empty allocator while pages are mapped
C7_Witness ==
    /\ last.op = "map_to_any" /\ last.res = "Alloc" /\ last.allocs = <<>>
    /\ free = {}
    /\ \E p \in Pages : translate_page(mem, cr3, p) # NoFrame

\* C8: a map that fails because the allocator has no frame for a directory
\* leaves every entry of every table as it was.
C8_MapAtomicOnAllocFailure ==
    [][(last'.op \in {"map", "identity_map"} /\ last'.res = "Alloc") => mem' = mem]_vars

\* addresses of a section: the first, the second, one in each later page, the last
SectionAddrs(s) ==
    {a \in {s.addr, s.addr + 1, s.end - 1} \cup {s.addr + k * PAGE_SIZE : k \in 0 .. KernelSpan} :
        s.addr <= a /\ a < s.end}

\* C9: after kernel_remap returned Ok, every address of every allocated
\* section that starts on a page translates to itself in the active table.
C9_SectionsIdentityMapped ==
    (rpc = "done" /\ rst.ret = "Ok")
    => \A k \in 1 .. Len(rin.sections) :
        (rin.sections[k].allocated /\ is_page_aligned(rin.sections[k].addr))
        => \A a \in SectionAddrs(rin.sections[k]) : translate(mem, cr3, a) = a

\* C10: after kernel_remap returned Ok, the page at the address of the frame
\* of the table that was active before has no translation.
C10_GuardPage ==
    (rpc = "done" /\ rst.ret = "Ok")
    => /\ rst.old_table = BootPML4
       /\ cr3 = rst.new_table
       /\ translate_page(mem, cr3, containing(base_addr(rst.old_table))) = NoFrame

\* kernel_remap returned Ok, and the new table translates another page of the
\* section the old table was in
C10_Witness ==
    /\ rpc = "done" /\ rst.ret = "Ok"
    /\ cr3 # BootPML4
    /\ translate_page(mem, cr3, BootPML4 + 1) = BootPML4 + 1

\* C11: the base register changes only in replace_with, which sets it to the
\* frame of new_table and returns the frame that was in it wrapped as an
\* InactivePageTable; map, unmap, identity_map, map_to_any,
\* InactivePageTable::new and using, with its closure's calls, leave it alone.
C11_OnlyReplaceWithChangesCr3 ==
    [][/\ (last'.op = "replace_with")
            => /\ cr3' = last'.frame
               /\ inactive' = (inactive \ {cr3'}) \cup {cr3}
               /\ mem' = mem
       /\ (last'.op # "replace_with") => cr3' = cr3]_vars

\* replace_with installed a table that maps a page, and the bootloader's
\* table came back inactive
C11_Witness ==
    /\ last.op = "replace_with"
    /\ cr3 = last.frame /\ cr3 # BootPML4
    /\ BootPML4 \in inactive
    /\ \E p \in ClosurePages : translate_page(mem, cr3, p) # NoFrame

\* a directory entry behind which there is no table: unused, or huge
Blocked(e) == is_unused(e) \/ is_huge(e)

\* the directory entries of page in the table stored in frame root
PML4Entry(m, root, page) == Rd(m, root, pml4_index(page))
PDPTEntry(m, root, page) == Rd(m, get_frame(PML4Entry(m, root, page)), pdpt_index(page))
PDEntry(m, root, page) == Rd(m, get_frame(PDPTEntry(m, root, page)), pd_index(page))

\* some directory entry on the path of page is unused or huge
MissingDirectory(m, root, page) ==
    \/ Blocked(PML4Entry(m, root, page))
    \/ Blocked(PDPTEntry(m, root, page))
    \/ Blocked(PDEntry(m, root, page))

AllPages == Pages \cup ProbePages

\* C12: unmap of a page whose directories all exist and whose leaf entry is
\* unused returns the not-mapped error, changes no entry and calls
\* deallocate not at all.
C12_UnmapUnmapped ==
    [][\A p \in AllPages :
        (/\ last'.op = "unmap" /\ last'.page = p
         /\ ~MissingDirectory(mem, cr3, p)
         /\ is_unused(LeafEntry(mem, cr3, p)))
        => /\ last'.res = "NotMapped"
           /\ mem' = mem
           /\ free' = free
           /\ last'.deallocs = <<>>]_vars

\* unmap was refused on a page of a leaf table that another page is mapped in
C12_Witness ==
    /\ last.op = "unmap" /\ last.res = "NotMapped"
    /\ ~MissingDirectory(mem, cr3, last.page)
    /\ \E p \in Pages \ {last.page} :
        /\ translate_page(mem, cr3, p) # NoFrame
        /\ leaf_table(mem, cr3, p) = leaf_table(mem, cr3, last.page)

\* C13: unmap of a page with an unused or huge directory entry on its path
\* (PML4, PDPT or PD) returns the huge-pages-not-supported error, changes no
\* entry and calls deallocate not at all.
C13_UnmapMissingDirectory ==
    [][\A p \in AllPages :
        (last'.op = "unmap" /\ last'.page = p /\ MissingDirectory(mem, cr3, p))
        => /\ last'.res = "HugePagesNotSupported"
           /\ mem' = mem
           /\ free' = free
           /\ last'.deallocs = <<>>]_vars

\* unmap was refused on a page inside the huge page while other pages are mapped
C13_Witness ==
    /\ last.op = "unmap" /\ last.res = "HugePagesNotSupported"
    /\ is_huge(PDEntry(mem, cr3, last.page))
    /\ \E p \in Pages : translate_page(mem, cr3, p) # NoFrame

\* bit k of n; the numbers of the model have no bit above the 30th
Bit(n, k) == IF k > 30 THEN 0 ELSE (n \div (2 ^ k)) % 2

\* the number made of the nine bits lo .. lo + 8 of the address whose page
\* number is page (bit k of the address is bit k - 12 of the page number)
AddrBits(page, lo) ==
    Bit(page, lo - 12) + 2 * Bit(page, lo - 11) + 4 * Bit(page, lo - 10)
        + 8 * Bit(page, lo - 9) + 16 * Bit(page, lo - 8) + 32 * Bit(page, lo - 7)
        + 64 * Bit(page, lo - 6) + 128 * Bit(page, lo - 5) + 256 * Bit(page, lo - 4)

\* C14: the four indices of an address are its bits 39-47, 30-38, 21-29 and
\* 12-20, each in 0 .. 511; address 0 has all four 0, address 512 * 4096 has
\* pd index 1 and pt index 0, address 300 * 512 * 4096 has pd index 300.
C14_IndexExtraction ==
    (rpc = "indexed")
    => /\ rst.pml4 = AddrBits(rin, 39) /\ rst.pdpt = AddrBits(rin, 30)
       /\ rst.pd = AddrBits(rin, 21) /\ rst.pt = AddrBits(rin, 12)
       /\ {rst.pml4, rst.pdpt, rst.pd, rst.pt} \subseteq 0 .. (N_ENTRIES - 1)
       /\ (rin = 0) => (rst.pml4 = 0 /\ rst.pdpt = 0 /\ rst.pd = 0 /\ rst.pt = 0)
       /\ (rin = 512) => (rst.pd = 1 /\ rst.pt = 0)
       /\ (rin = 300 * 512) => (rst.pd = 300)

\* the indices of an address with a bit set in each of the four fields and
\* above the pd field's ninth bit were taken
C14_Witness ==
    /\ rpc = "indexed"
    /\ rst = [pml4 |-> 15, pdpt |-> 1, pd |-> 300, pt |-> RECURSIVE_SLOT]

\* C15: when InactivePageTable::new(frame, ..) returns Ok, the table in frame
\* has slot 511 present, writable and referencing frame, and every other
\* entry unused, whatever the frame held before.
C15_NewTableIsEmptyButSelf ==
    [][(last'.op = "new" /\ last'.res = "Ok")
        => /\ \A i \in Slots \ {RECURSIVE_SLOT} : is_unused(Rd(mem', last'.frame, i))
           /\ Rd(mem', last'.frame, RECURSIVE_SLOT)
                = MkEntry(last'.frame, {PRESENT, WRITABLE})]_vars

\* new returned Ok on a frame that held junk, while a page is mapped in the
\* active table
C15_Witness ==
    /\ last.op = "new" /\ last.res = "Ok"
    /\ BootMem[last.frame] = JunkTable
    /\ mem[last.frame] = SelfTable(last.frame)
    /\ \E p \in ClosurePages : translate_page(mem, cr3, p) # NoFrame

\* the frame the processor translates page to through the table in frame root
Walk(m, root, page) == HW(m, root, PageVA(page))

\* C16: a map made by the closure of using creates the mapping in the
\* inactive table's hierarchy, where translate_page finds it once the table
\* is installed with replace_with, and the translations of the active table
\* are after using returns what they were before it was called.
C16_RedirectionEditsInactive ==
    [][\A p \in ClosurePages :
        /\ (upc.state = "closure" /\ last'.op = "map" /\ last'.page = p /\ last'.res = "Ok")
            => translate_page(mem', upc.table, p) = last'.frame
        /\ (upc.state = "idle" /\ upc'.state = "closure")
            => Walk(mem', cr3', p) = translate_page(mem, cr3, p)
        /\ (upc.state = "closure" /\ upc'.state = "closure")
            => Walk(mem', cr3', p) = Walk(mem, cr3, p)
        /\ (upc.state = "closure" /\ upc'.state = "idle")
            => /\ translate_page(mem', cr3', p) = Walk(mem, cr3, p)
               /\ translate_page(mem', upc.table, p) = translate_page(mem, upc.table, p)
        /\ (last'.op = "replace_with")
            => translate_page(mem', cr3', p) = translate_page(mem, last'.frame, p)]_vars

\* the closure mapped a page with three new directories: the inactive table
\* translates it and the processor, through the active table, does not
C16_Witness ==
    /\ upc.state = "closure"
    /\ last.op = "map" /\ last.res = "Ok" /\ Len(last.allocs) = 3
    /\ translate_page(mem, upc.table, last.page) = last.frame
    /\ Walk(mem, cr3, last.page) = NoFrame

PathEntries(m, root, page) ==
    {PML4Entry(m, root, page), PDPTEntry(m, root, page), PDEntry(m, root, page),
     LeafEntry(m, root, page)}

\* C18: every present entry references a frame whose number is not 0,
\* whatever arguments map and identity_map were called with.
C18_PresentEntryNonZero ==
    \A p \in AllPages : \A e \in PathEntries(mem, cr3, p) :
        (PRESENT \in e.flags) => e.frame # 0

\* C19: when InactivePageTable::new or using has returned Ok, the temporary
\* page has no translation in the active table.
C19_TempPageUnbound ==
    (upc.state = "idle" /\ last.op \in {"new", "using"} /\ last.res = "Ok")
    => /\ translate_page(mem, cr3, TEMP_PAGE_NUMBER) = NoFrame
       /\ Walk(mem, cr3, TEMP_PAGE_NUMBER) = NoFrame

\* using returned Ok; the directories made for the temporary page are still
\* there and its leaf entry is unused
C19_Witness ==
    /\ upc.state = "idle" /\ last.op = "using" /\ last.res = "Ok"
    /\ leaf_table(mem, cr3, TEMP_PAGE_NUMBER) # NoTable
    /\ is_unused(LeafEntry(mem, cr3, TEMP_PAGE_NUMBER))

\* the events of a complete call of using, in order
UsingOrder == <<"bind", "write511", "flush_all", "callback", "write511", "flush_all", "unbind">>

\* C20: the events of using happen in the order bind, write of slot 511 with
\* the inactive frame, flush_all, callback, write of slot 511 with the saved
\* frame through the temporary page, flush_all, unbind; the callback and the
\* unbinding come directly after a flush_all that came directly after a write
\* of slot 511; and when binding fails, slot 511 is not written.
C20_UsingStepOrder ==
    /\ Len(rst) <= Len(UsingOrder)
    /\ \A i \in 1 .. Len(rst) : rst[i].ev = UsingOrder[i]
    /\ \A i \in 1 .. Len(rst) :
          rst[i].ev \in {"callback", "unbind"}
          => i > 2 /\ rst[i - 1].ev = "flush_all" /\ rst[i - 2].ev = "write511"
    /\ (upc.state # "idle" /\ Len(rst) >= 1) => rst[1].frame = cr3
    /\ (upc.state # "idle" /\ Len(rst) >= 2)
       => rst[2].frame = upc.table /\ upc.table \in inactive
    /\ (upc.state # "idle" /\ Len(rst) \in 2 .. 4)
       => Rd(mem, cr3, RECURSIVE_SLOT) = MkEntry(upc.table, {PRESENT, WRITABLE})
    /\ Len(rst) >= 5
       => /\ rst[5].frame = rst[1].frame /\ rst[5].via = "temp"
          /\ upc.state # "idle"
             => Rd(mem, cr3, RECURSIVE_SLOT) = MkEntry(cr3, {PRESENT, WRITABLE})
    /\ (upc.state = "idle" /\ last.op = "using" /\ rst = <<>>)
       => /\ last.res # "Ok"
          /\ get_frame(Rd(mem, cr3, RECURSIVE_SLOT)) = upc.before
          /\ upc.before = cr3

\* a call of using ran to its end, its closure having mapped a page in the
\* inactive table
C20_Witness ==
    /\ upc.state = "idle" /\ last.op = "using" /\ last.res = "Ok"
    /\ Len(rst) = Len(UsingOrder)
    /\ \E t \in inactive \cap CallerFrames :
          PRESENT \in Rd(mem, t, pml4_index(N_ENTRIES)).flags

\* the events of a successful call of unmap, in order
UnmapOrder == <<"set_unused", "invlpg", "deallocate">>

\* C21: in unmap the leaf entry is marked unused, then the page's cached
\* translation is invalidated, then the frame is handed to deallocate; when
\* the frame is handed back the entry is unused and no translation of the
\* page is cached, and before that the allocator does not hold the frame.
C21_UnmapStepOrder ==
    /\ Len(rst.events) <= Len(UnmapOrder)
    /\ \A i \in 1 .. Len(rst.events) : rst.events[i].ev = UnmapOrder[i]
    /\ \A i \in 1 .. Len(rst.events) :
          rst.events[i].ev = "deallocate" => ~rst.events[i].cached
    /\ rpc \in {"set_unused", "invlpg", "deallocate"} => rst.frame \notin free
    /\ rpc \in {"deallocate", "return"} /\ rst.res = "Running"
       => /\ is_unused(LeafEntry(mem, cr3, rin))
          /\ Walk(mem, cr3, rin) = NoFrame
          /\ ~Cached(rin)
    /\ rpc = "return" /\ rst.res = "Running"
       => Len(rst.events) = Len(UnmapOrder) /\ rst.frame \in free

\* unmap handed back the frame of a page whose translation was cached when
\* its entry was marked unused
C21_Witness ==
    /\ rpc = "return" /\ rst.res = "Running"
    /\ Len(rst.events) = Len(UnmapOrder)
    /\ rst.events[1].cached /\ ~rst.events[3].cached

\* the frames of the tables on the path of page
PathTables(m, root, page) ==
    {root, PML4Entry(m, root, page).frame, PDPTEntry(m, root, page).frame,
     PDEntry(m, root, page).frame}

\* C22: a successful unmap(P) changes the leaf entry of P and no other entry
\* of any table: the directory entries on P's path stay present, even when
\* the leaf table is left empty, and the only frame handed to the allocator
\* is the one the leaf entry referenced, not the frame of a table.
C22_UnmapOnlyLeaf ==
    [][\A p \in AllPages :
        (last'.op = "unmap" /\ last'.page = p /\ last'.res = "Ok")
        => /\ \A f \in Frames, i \in Slots :
                 mem'[f][i] # mem[f][i]
                 => f = PDEntry(mem, cr3, p).frame /\ i = pt_index(p)
           /\ \A e \in {PML4Entry(mem', cr3, p), PDPTEntry(mem', cr3, p),
                        PDEntry(mem', cr3, p)} : PRESENT \in e.flags
           /\ free' \ free = {LeafEntry(mem, cr3, p).frame}
           /\ (free' \ free) \cap PathTables(mem, cr3, p) = {}
           /\ leaf_table(mem', cr3, p) # NoTable]_vars

\* an unmap succeeded and left a leaf table with no entry in use, still linked
\* in its directory
C22_Witness ==
    /\ last.op = "unmap" /\ last.res = "Ok"
    /\ PRESENT \in PDEntry(mem, cr3, last.page).flags
    /\ PDEntry(mem, cr3, last.page).frame \in FreeFrames
    /\ \A i \in Slots : is_unused(Rd(mem, PDEntry(mem, cr3, last.page).frame, i))

\* the pages p with start <= p < end, in increasing order
HalfOpen(range) == [i \in 1 .. (range.end - range.start) |-> range.start + i - 1]

\* C23: on a range with start <= end an iterator yields the pages from start
\* up to but not including end, each once and in increasing order, and None
\* from then on; another iter() on the range yields the same sequence.
C23_PageRangeIteration ==
    rin.start <= rin.end
    => /\ rpc = "iter"
       /\ Len(rst.it.yielded) <= Len(HalfOpen(rin))
       /\ \A i \in 1 .. Len(rst.it.yielded) : rst.it.yielded[i] = HalfOpen(rin)[i]
       /\ rst.it.nones > 0 => rst.it.yielded = HalfOpen(rin)
       /\ rst.it.nones = 0 => rst.it.current = rin.start + Len(rst.it.yielded)
       /\ rst.done \subseteq {HalfOpen(rin)}

\* a second iterator over a range of at least two pages came to its end and
\* returned None twice, after the first one had come to its end
C23_Witness ==
    /\ rin.end >= rin.start + 2 /\ rin.start > 0
    /\ rst.iters = 2 /\ rst.done # {}
    /\ rst.it.nones = 2

\* the frame of page inside a huge page of the level that starts at frame start
HugeFrame(level, start, page) ==
    IF level = "pdpt" THEN start + pd_index(page) * N_ENTRIES + pt_index(page)
    ELSE start + pt_index(page)

\* C24: under a huge PDPT entry with start frame S translate_page returns
\* S + pd_index * 512 + pt_index, under a huge PD entry S + pt_index, and two
\* distinct pages under the same huge entry translate to distinct frames.
C24_HugeOffsetPreserved ==
    rpc = "translated"
    => /\ rst.p = HugeFrame(rin.level, rin.start, rin.p)
       /\ rst.q = HugeFrame(rin.level, rin.start, rin.q)
       /\ rin.p # rin.q => rst.p # rst.q

\* C25: when map_to_any returns an error, the frame it took from the
\* allocator for the page is back in the allocator.
C25_NoLeakOnFailedMapToAny ==
    [][(last'.op = "map_to_any" /\ last'.res # "Ok" /\ last'.allocs # <<>>)
       => last'.allocs[1] \in free']_vars

\* C26: a frame that unmap passes to deallocate is referenced by no present
\* leaf entry afterwards, and the allocator did not hold it already.
C26_NoFreeWhileMapped ==
    [][(last'.op = "unmap" /\ last'.res = "Ok")
       => /\ Len(last'.deallocs) = 1
          /\ last'.deallocs[1] \notin free
          /\ \A p \in AllPages :
                get_frame(LeafEntry(mem', cr3', p)) # last'.deallocs[1]]_vars

====
